---- MODULE Spec2Model ----
(***************************************************************************)
(* Member lookup of lib/Sema/NameLookup.cpp: MemberLookup::doIt collects   *)
(* the candidates a name "a.b" may refer to, MemberLookup::createResultAST *)
(* builds the expression for them.                                         *)
(*                                                                         *)
(* Identifiers are sequences of one-character strings, so that the         *)
(* "$<digits>" form is parsed, not assumed.  Types, declarations and       *)
(* expressions are records tagged by their class.                          *)
(***************************************************************************)
EXTENDS Integers, Sequences, FiniteSets, TLC

(* ------------------------------ bounds --------------------------------- *)
\* longest tuple type
MaxFields == 2
\* most members declared by a protocol, and most values declared by a module
MaxElements == 2
\* most members the extension registry holds for the type looked into
MaxExtensions == 2

SeqsUpTo(S, n) == UNION {[1..k -> S] : k \in 0..n}

(* --------------------------- declarations ------------------------------ *)
\* ValueDecl: FuncDecl (static or not), VarDecl, TypeDecl, OneOfElementDecl
MkDecl(n, k, s) == [name |-> n, kind |-> k, isStatic |-> s]

NameF == <<"f">>
NameG == <<"g">>

FuncF == MkDecl(NameF, "function", FALSE)
StaticF == MkDecl(NameF, "function", TRUE)
VarF == MkDecl(NameF, "dataMember", FALSE)
TypeF == MkDecl(NameF, "typeDecl", FALSE)
EltF == MkDecl(NameF, "tagConstructor", FALSE)
FuncG == MkDecl(NameG, "function", FALSE)
EltG == MkDecl(NameG, "tagConstructor", FALSE)

\* the "no declaration" (null pointer) result of a lookup by name
NoDecl == MkDecl(<<>>, "none", FALSE)

(* ------------------------------- types --------------------------------- *)
OtherTy(i) == [shape |-> "Other", id |-> i]

TupleTy(fs) == [shape |-> "Tuple", fields |-> fs]

ProtocolTy(es) == [shape |-> "Protocol", elements |-> es]

\* a oneof: its element declarations and, per element, the argument type
OneOfTy(es, args) == [shape |-> "OneOf", elements |-> es, args |-> args]

ModuleTy(vs) == [shape |-> "Module", values |-> vs]

MetaTypeTy(t) == [shape |-> "MetaType", declared |-> t]

LValueTy(t, qs) == [shape |-> "LValue", object |-> t, quals |-> qs]

\* LValueType::Qual is a bit set; Implicit is the bit the code names
Quals == SUBSET {"Implicit", "NonHeap"}

(* ------------------------ MemberLookupResult --------------------------- *)
getPassBase(D) == [Kind |-> "PassBase", D |-> D]

getIgnoreBase(D) == [Kind |-> "IgnoreBase", D |-> D]

getTupleElement(FieldNo, IsStruct) ==
  [Kind |-> IF IsStruct THEN "StructElement" ELSE "TupleElement",
   TupleFieldNo |-> FieldNo]

IsFieldKind(R) == R.Kind \in {"StructElement", "TupleElement"}

(* ----------------------------- StringRef ------------------------------- *)
startswith(Str, Prefix) ==
  /\ Len(Str) >= Len(Prefix)
  /\ SubSeq(Str, 1, Len(Prefix)) = Prefix

substr(Str, Start) == SubSeq(Str, Start + 1, Len(Str))

\* value of a character as a digit; letters are digits of larger radixes
DigitOf(c) ==
  CASE c = "0" -> 0 [] c = "1" -> 1 [] c = "2" -> 2 [] c = "3" -> 3
    [] c = "4" -> 4 [] c = "5" -> 5 [] c = "6" -> 6 [] c = "7" -> 7
    [] c = "8" -> 8 [] c = "9" -> 9 [] c = "a" -> 10 [] c = "b" -> 11
    [] c = "c" -> 12 [] c = "x" -> 33
    [] OTHER -> -1

RECURSIVE StripZeros(_)
StripZeros(ds) ==
  IF ds # <<>> /\ Head(ds) = 0 THEN StripZeros(Tail(ds)) ELSE ds

RECURSIVE DigitsToNat(_)
DigitsToNat(ds) ==
  IF ds = <<>> THEN 0 ELSE 10 * DigitsToNat(SubSeq(ds, 1, Len(ds) - 1)) + ds[Len(ds)]

\* a <= b for digit sequences of the same length
RECURSIVE DigitsLeq(_, _)
DigitsLeq(a, b) ==
  IF a = <<>> THEN TRUE
  ELSE IF Head(a) # Head(b) THEN Head(a) < Head(b)
  ELSE DigitsLeq(Tail(a), Tail(b))

\* 2^32 - 1, the largest 'unsigned', digit by digit: the numbers a name can
\* spell exceed the integers TLC computes with, so a parsed number is kept
\* as its significant digits and compared digit by digit
UIntMaxDigits == <<4, 2, 9, 4, 9, 6, 7, 2, 9, 5>>

FitsUnsigned(sig) ==
  \/ Len(sig) < Len(UIntMaxDigits)
  \/ Len(sig) = Len(UIntMaxDigits) /\ DigitsLeq(sig, UIntMaxDigits)

\* StringRef::getAsInteger(Radix, unsigned &): failed is its return value
\* (true on an empty string, a character that is no digit of the radix, or
\* a value that does not fit), Value the digits of the number it stores
getAsInteger(Str, Radix) ==
  LET ds == [i \in 1..Len(Str) |-> DigitOf(Str[i])]
      bad == \/ Str = <<>>
             \/ \E i \in 1..Len(Str) : ds[i] < 0 \/ ds[i] >= Radix
      sig == StripZeros(ds)
  IN IF bad \/ ~FitsUnsigned(sig)
       THEN [failed |-> TRUE, Value |-> <<>>]
       ELSE [failed |-> FALSE, Value |-> sig]

\* Value < n, for a small n
UnsignedLess(Value, n) == Len(Value) < Len(UIntMaxDigits) /\ DigitsToNat(Value) < n

(* ------------------------------ doTuple -------------------------------- *)
\* TupleType::getNamedElementId: index of the first field of that name, or -1
\* (indices are zero-based, fields[i + 1] is field i)
getNamedElementId(TT, Name) ==
  LET hits == {i \in 1..Len(TT.fields) : TT.fields[i].name = Name}
  IN IF hits = {} THEN -1
     ELSE (CHOOSE i \in hits : \A j \in hits : i <= j) - 1

\* doTuple with the index compared by <= instead of <
doTuple_InclusiveBound(TT, Name, IsStruct, Res) ==
  LET FieldNo == getNamedElementId(TT, Name)
      parsed == getAsInteger(substr(Name, 1), 10)
  IN IF FieldNo # -1
       THEN Append(Res, getTupleElement(FieldNo, IsStruct))
     ELSE IF /\ startswith(Name, <<"$">>)
             /\ ~parsed.failed
             /\ UnsignedLess(parsed.Value, Len(TT.fields) + 1)
       THEN Append(Res, getTupleElement(DigitsToNat(parsed.Value), IsStruct))
     ELSE Res

doTuple(TT, Name, IsStruct, Res) ==
  LET FieldNo == getNamedElementId(TT, Name)
      NameStr == Name
      parsed == getAsInteger(substr(NameStr, 1), 10)
  IN IF FieldNo # -1
       THEN Append(Res, getTupleElement(FieldNo, IsStruct))
     ELSE IF /\ startswith(NameStr, <<"$">>)
             /\ ~parsed.failed
             /\ UnsignedLess(parsed.Value, Len(TT.fields))
       THEN Append(Res, getTupleElement(DigitsToNat(parsed.Value), IsStruct))
     ELSE Res

(* --------------------- collaborators of the lookup --------------------- *)
\* OneOfDecl::getElement: the element of that name, or null
getElement(OOTy, Name) ==
  LET hits == {i \in 1..Len(OOTy.elements) : OOTy.elements[i].name = Name}
  IN IF hits = {} THEN NoDecl
     ELSE OOTy.elements[CHOOSE i \in hits : \A j \in hits : i <= j]

\* OneOfDecl::isTransparentType: a single element constructor
isTransparentType(OneOf) == Len(OneOf.elements) = 1

\* OneOfDecl::getTransparentType: the type underlying the single element
getTransparentType(OneOf) == OneOf.args[1]

\* Module::lookupValue with an empty access path: the module's values of
\* that name, in the module's order
lookupValue(Mod, Name) == SelectSeq(Mod.values, LAMBDA d : d.name = Name)

\* Module::lookupGlobalExtensionMethods: the members of that name that the
\* extensions of BaseTy declare, in the registry's order.  M.extensions
\* holds the members registered against M.extended.
lookupGlobalExtensionMethods(M, BaseTy, Name) ==
  IF BaseTy = M.extended
    THEN SelectSeq(M.extensions, LAMBDA d : d.name = Name)
    ELSE <<>>

(* ------------------------------- doIt ---------------------------------- *)
\* the post-filter erasing by the kinds the results had before the rewrite
metaTypeFilter_EraseFirst(Res) ==
  IF \E i \in 1..Len(Res) : IsFieldKind(Res[i])
    THEN SelectSeq(Res, LAMBDA R : R.Kind = "IgnoreBase")
    ELSE [i \in 1..Len(Res) |->
            IF Res[i].Kind = "PassBase" THEN getIgnoreBase(Res[i].D) ELSE Res[i]]

\* the post-filter of a metatype lookup: PassBase becomes IgnoreBase, and
\* if a field result was seen, everything not IgnoreBase is erased
metaTypeFilter(Res) ==
  LET rewritten == [i \in 1..Len(Res) |->
                      IF Res[i].Kind = "PassBase"
                        THEN getIgnoreBase(Res[i].D) ELSE Res[i]]
      AnyInvalid == \E i \in 1..Len(Res) : IsFieldKind(Res[i])
  IN IF AnyInvalid
       THEN SelectSeq(rewritten, LAMBDA R : R.Kind = "IgnoreBase")
       ELSE rewritten

\* the scan of the protocol members without the early return: the last
\* member of that name
findProtocolMember_Last(PT, Name) ==
  LET hits == {i \in 1..Len(PT.elements) : PT.elements[i].name = Name}
  IN IF hits = {} THEN 0 ELSE CHOOSE i \in hits : \A j \in hits : i >= j

\* index of the first protocol member of that name, 0 if there is none
findProtocolMember(PT, Name) ==
  LET hits == {i \in 1..Len(PT.elements) : PT.elements[i].name = Name}
  IN IF hits = {} THEN 0 ELSE CHOOSE i \in hits : \A j \in hits : i <= j

\* the result pushed for a matching protocol member
protocolMemberResult(VD) ==
  IF VD.kind = "function" /\ VD.isStatic
    THEN getIgnoreBase(VD)
    ELSE getPassBase(VD)

\* the result pushed for one extension member
extensionMemberResult(VD) ==
  IF VD.kind = "typeDecl" THEN getIgnoreBase(VD)
  ELSE IF VD.kind = "function" /\ VD.isStatic THEN getIgnoreBase(VD)
  ELSE getPassBase(VD)

\* the loop over ExtensionMethods skipping declarations found already
addExtensionMethods_Dedup(Res, ExtensionMethods) ==
  LET fresh == SelectSeq(ExtensionMethods,
                 LAMBDA VD : ~\E i \in 1..Len(Res) :
                                ~IsFieldKind(Res[i]) /\ Res[i].D = VD)
  IN Res \o [i \in 1..Len(fresh) |-> extensionMemberResult(fresh[i])]

\* the loop over ExtensionMethods
addExtensionMethods(Res, ExtensionMethods) ==
  Res \o [i \in 1..Len(ExtensionMethods) |->
            extensionMemberResult(ExtensionMethods[i])]

\* the tuple-field steps: a tuple, or a transparent oneof over a tuple
addFields(BaseTy, Name, Res) ==
  LET R1 == IF BaseTy.shape = "Tuple"
              THEN doTuple(BaseTy, Name, FALSE, Res) ELSE Res
  IN IF /\ BaseTy.shape = "OneOf"
        /\ isTransparentType(BaseTy)
        /\ getTransparentType(BaseTy).shape = "Tuple"
       THEN doTuple(getTransparentType(BaseTy), Name, TRUE, R1)
       ELSE R1

RECURSIVE doIt(_, _, _, _)
doIt(BaseTy0, Name, M, Res) ==
  LET BaseTy == IF BaseTy0.shape = "LValue" THEN BaseTy0.object ELSE BaseTy0
  IN
  IF BaseTy.shape = "MetaType" THEN
    LET Ty == BaseTy.declared
        Elt == IF Ty.shape = "OneOf" THEN getElement(Ty, Name) ELSE NoDecl
        R1 == IF Elt # NoDecl THEN Append(Res, getIgnoreBase(Elt)) ELSE Res
    IN metaTypeFilter(doIt(Ty, Name, M, R1))
  ELSE IF BaseTy.shape = "Module" THEN
    LET Decls == lookupValue(BaseTy, Name)
    IN Res \o [i \in 1..Len(Decls) |-> getIgnoreBase(Decls[i])]
  ELSE IF BaseTy.shape = "Protocol" /\ findProtocolMember(BaseTy, Name) # 0 THEN
    Append(Res, protocolMemberResult(
                  BaseTy.elements[findProtocolMember(BaseTy, Name)]))
  ELSE
    addExtensionMethods(addFields(BaseTy, Name, Res),
                        lookupGlobalExtensionMethods(M, BaseTy, Name))

(* --------------------------- createResultAST --------------------------- *)
\* a failed assert() or cast<>()
AssertionFailure(what) == [node |-> "AssertionFailure", what |-> what]

IsFailure(Ex) == Ex.node = "AssertionFailure"

\* makeSimilarLValue propagating explicitness
makeSimilarLValue_KeepExplicit(objectType, lvalueType) ==
  LValueTy(objectType, lvalueType.quals)

makeSimilarLValue(objectType, lvalueType) ==
  LET qs == lvalueType.quals
  IN LValueTy(objectType, qs \cup {"Implicit"})

lookThroughOneofs(Ex) ==
  LET IsLValue == Ex.type.shape = "LValue"
      BaseType == IF IsLValue THEN Ex.type.object ELSE Ex.type
  IN IF BaseType.shape # "OneOf" \/ ~isTransparentType(BaseType)
       THEN AssertionFailure("castTo<OneOfType> / isTransparentType")
       ELSE LET ResultType == getTransparentType(BaseType)
            IN [node |-> "LookThroughOneofExpr",
                sub |-> Ex,
                type |-> IF IsLValue
                           THEN makeSimilarLValue(ResultType, Ex.type)
                           ELSE ResultType]

buildTupleElementExpr(Base, DotLoc, FieldIndex) ==
  LET IsLValue == Base.type.shape = "LValue"
      BaseTy == IF IsLValue THEN Base.type.object ELSE Base.type
  IN IF BaseTy.shape # "Tuple" \/ FieldIndex >= Len(BaseTy.fields)
       THEN AssertionFailure("castTo<TupleType> / getElementType")
       ELSE LET FieldType == BaseTy.fields[FieldIndex + 1].type
            IN [node |-> IF DotLoc THEN "SyntacticTupleElementExpr"
                                   ELSE "ImplicitThisTupleElementExpr",
                base |-> Base,
                field |-> FieldIndex,
                type |-> IF IsLValue
                           THEN makeSimilarLValue(FieldType, Base.type)
                           ELSE FieldType]

DeclRefExpr(D) == [node |-> "DeclRefExpr", decl |-> D]

\* DotLoc is DotLoc.isValid()
createResultAST(Base, DotLoc, Res) ==
  IF Res = <<>> THEN
    AssertionFailure("isSuccess")
  ELSE IF Len(Res) = 1 THEN
    LET R == Res[1]
    IN CASE R.Kind = "StructElement" ->
              LET Unwrapped == lookThroughOneofs(Base)
              IN IF IsFailure(Unwrapped) THEN Unwrapped
                 ELSE buildTupleElementExpr(Unwrapped, DotLoc, R.TupleFieldNo)
         [] R.Kind = "TupleElement" ->
              buildTupleElementExpr(Base, DotLoc, R.TupleFieldNo)
         [] R.Kind = "PassBase" ->
              IF R.D.kind = "function"
                THEN [node |-> "DotSyntaxCallExpr",
                      fn |-> DeclRefExpr(R.D), base |-> Base]
              ELSE IF R.D.kind = "dataMember"
                THEN [node |-> "MemberRefExpr", base |-> Base, decl |-> R.D]
              ELSE AssertionFailure("cast<VarDecl>")
         [] R.Kind = "IgnoreBase" ->
              [node |-> "DotSyntaxBaseIgnoredExpr",
               base |-> Base, rhs |-> DeclRefExpr(R.D)]
  ELSE IF \E i \in 1..Len(Res) : IsFieldKind(Res[i]) THEN
    AssertionFailure("Kind != TupleElement && Kind != StructElement")
  ELSE
    [node |-> "OverloadedMemberRefExpr",
     base |-> Base,
     decls |-> [i \in 1..Len(Res) |-> Res[i].D]]

(* ----------------------------- the inputs ------------------------------ *)
NameDollar1 == <<"$", "1">>

\* field i of a tuple has a type of its own, so that a projection with the
\* wrong index shows in the type
TupleTypes(FieldNames) ==
  {TupleTy([i \in 1..Len(ns) |-> [name |-> ns[i], type |-> OtherTy(i)]]) :
     ns \in SeqsUpTo(FieldNames, MaxFields)}

ProtocolPool == {FuncF, StaticF, VarF, TypeF, FuncG}

ExtensionPool == {FuncF, StaticF, VarF, TypeF, EltF, FuncG}

ModulePool == {FuncF, TypeF, FuncG}

SpecTuples == TupleTypes({<<>>, NameF})

ProtocolTypes == {ProtocolTy(es) : es \in SeqsUpTo(ProtocolPool, MaxElements)}

OneOfTypes ==
  {OneOfTy(<<e>>, <<t>>) : e \in {EltF, EltG}, t \in SpecTuples \cup {OtherTy(0)}}
  \cup {OneOfTy(<<EltF, EltG>>, <<OtherTy(0), OtherTy(0)>>)}

ModuleTypes == {ModuleTy(vs) : vs \in SeqsUpTo(ModulePool, MaxElements)}

ObjectTypes == SpecTuples \cup ProtocolTypes \cup OneOfTypes \cup {OtherTy(0)}

MetaTypes == {MetaTypeTy(t) : t \in ObjectTypes}

LValueTypes == {LValueTy(t, qs) : t \in ObjectTypes, qs \in Quals}

BaseTypes == ObjectTypes \cup ModuleTypes \cup MetaTypes \cup LValueTypes

SpecNames == {NameF, NameDollar1}

\* the type a lookup on BaseTy queries the extension registry with
LookedInto(BaseTy) ==
  LET T == IF BaseTy.shape = "LValue" THEN BaseTy.object ELSE BaseTy
  IN IF T.shape = "MetaType" THEN T.declared ELSE T

\* the modules in whose context BaseTy is looked into: the registry holds
\* extensions of the type looked into or, for a metatype, of the metatype
Modules(BaseTy) ==
  {[extended |-> t, extensions |-> es] :
     t \in {LookedInto(BaseTy)},
     es \in SeqsUpTo(ExtensionPool, MaxExtensions)}
  \cup
  {[extended |-> t, extensions |-> <<e>>] :
     t \in {BaseTy} \cap MetaTypes, e \in ExtensionPool}

NoExpr == [node |-> "none"]

(* ------------------------- the lookup session -------------------------- *)
VARIABLES
  baseTy,   \* BaseTy handed to the constructor, the type of the base expression
  name,     \* Name handed to the constructor
  module,   \* M handed to the constructor
  Results,  \* MemberLookup::Results
  result,   \* what createResultAST returned
  pc        \* "new", "looked" (constructed), "built" (createResultAST ran)

vars == <<baseTy, name, module, Results, result, pc>>

Init ==
  /\ baseTy \in BaseTypes
  /\ name \in SpecNames
  /\ module \in Modules(baseTy)
  /\ Results = <<>>
  /\ result = NoExpr
  /\ pc = "new"

\* MemberLookup::MemberLookup
MemberLookup ==
  /\ pc = "new"
  /\ Results' = doIt(baseTy, name, module, Results)
  /\ pc' = "looked"
  /\ UNCHANGED <<baseTy, name, module, result>>

\* a build with assertions stops at a failed assertion; what a build
\* without them does past one (a bad downcast, a declaration read from a
\* field result) is undefined
WithoutAssertions(Failure) == [node |-> "Undefined", past |-> Failure.what]

\* MemberLookup::createResultAST on the base expression the lookup was made
\* for, with or without a valid DotLoc.  The callers ask isSuccess() first
\* and report an unresolved member themselves.
CreateResultAST ==
  /\ pc = "looked"
  /\ Results # <<>>
  /\ \E DotLoc \in BOOLEAN :
       LET Base == [node |-> "Base", type |-> baseTy]
           Ex == createResultAST(Base, DotLoc, Results)
       IN IF IsFailure(Ex)
            THEN result' \in {Ex, WithoutAssertions(Ex)}
            ELSE result' = Ex
  /\ pc' = "built"
  /\ UNCHANGED <<baseTy, name, module, Results>>

Next == MemberLookup \/ CreateResultAST

Spec == Init /\ [][Next]_vars

(* ------------------- the field lookup on its own ----------------------- *)
\* names that exercise the "$<digits>" form: in and out of range, leading
\* zeros, no digits, no digit, a sign, values past 2^32 and past 2^64
FieldLookupNames ==
  { NameF, NameG, <<"$">>, <<"1">>, <<"$", "0">>, NameDollar1, <<"$", "2">>,
    <<"$", "3">>, <<"$", "9">>, <<"$", "0", "1">>, <<"$", "0", "0", "0">>,
    <<"$", "1", "x">>, <<"$", "x">>, <<"$", "a">>, <<"$", "-", "1">>,
    <<"$", "+", "1">>, <<"$", "$", "1">>, <<"$", "1", "0">>,
    <<"$", "4", "2", "9", "4", "9", "6", "7", "2", "9", "5">>,
    <<"$", "4", "2", "9", "4", "9", "6", "7", "2", "9", "6">>,
    <<"$", "4", "2", "9", "4", "9", "6", "7", "2", "9", "7">>,
    <<"$", "1", "8", "4", "4", "6", "7", "4", "4", "0", "7", "3", "7", "0",
      "9", "5", "5", "1", "6", "1", "7">> }

FieldLookupTuples == TupleTypes({<<>>, NameF, NameDollar1})

FieldLookupTypes ==
  FieldLookupTuples \cup {OneOfTy(<<EltG>>, <<t>>) : t \in FieldLookupTuples}

InitFields ==
  /\ baseTy \in FieldLookupTypes
  /\ name \in FieldLookupNames
  /\ module = [extended |-> baseTy, extensions |-> <<>>]
  /\ Results = <<>>
  /\ result = NoExpr
  /\ pc = "new"

\* the two tuple-field steps of doIt, each a call of doTuple
FieldLookup ==
  /\ pc = "new"
  /\ Results' = addFields(baseTy, name, Results)
  /\ pc' = "fields"
  /\ UNCHANGED <<baseTy, name, module, result>>

NextFields == FieldLookup

SpecFields == InitFields /\ [][NextFields]_vars

(* ======================= properties of the lookup ====================== *)
\* the base type with l-valueness looked through
Stripped(T) == IF T.shape = "LValue" THEN T.object ELSE T

HasField(Res) == \E i \in 1..Len(Res) : IsFieldKind(Res[i])

\* the stripped base is a protocol that declares a member called name
ProtocolDeclares(T, nm) ==
  /\ Stripped(T).shape = "Protocol"
  /\ \E i \in 1..Len(Stripped(T).elements) : Stripped(T).elements[i].name = nm

\* C1: a finished result list with two or more results holds no tuple-field
\* or struct-field result: it has one result of any kind, or only
\* PassBase/IgnoreBase results.
C1_NoFieldAmongSeveral ==
  pc # "new" => (Len(Results) >= 2 => ~HasField(Results))

\* C2: on a metatype base the results are all IgnoreBase, and they are the
\* oneof element of that name (if the declared type is a oneof having one)
\* followed by the results of the lookup on the declared type, in order,
\* PassBase turned into IgnoreBase and field results removed.
C2_MetaTypeResults ==
  (pc # "new" /\ Stripped(baseTy).shape = "MetaType") =>
    LET T == Stripped(baseTy).declared
        tags == IF T.shape = "OneOf"
                  THEN SelectSeq(T.elements, LAMBDA e : e.name = name)
                  ELSE <<>>
        first == IF tags = <<>> THEN <<>>
                 ELSE <<[Kind |-> "IgnoreBase", D |-> tags[1]]>>
        inst == doIt(T, name, module, <<>>)
        kept == SelectSeq(inst, LAMBDA R : ~IsFieldKind(R))
    IN /\ Results = first \o [i \in 1..Len(kept) |->
                               [Kind |-> "IgnoreBase", D |-> kept[i].D]]
       /\ \A i \in 1..Len(Results) : Results[i].Kind = "IgnoreBase"

\* C2 witness: a metatype lookup that found the oneof element, and whose
\* lookup on the declared type found a field and a PassBase member
C2_Witness ==
  /\ pc = "looked"
  /\ Stripped(baseTy).shape = "MetaType"
  /\ LET inst == doIt(Stripped(baseTy).declared, name, module, <<>>)
     IN /\ HasField(inst)
        /\ \E i \in 1..Len(inst) : inst[i].Kind = "PassBase"
        /\ Len(Results) = Len(inst)

\* C3: on a protocol type declaring a member of that name the result is the
\* one result for the first such member in declaration order, IgnoreBase if
\* it is a static function and PassBase otherwise, whatever else the
\* protocol or the extensions declare under that name.
C3_ProtocolFirstMatch ==
  (pc # "new" /\ ProtocolDeclares(baseTy, name)) =>
    LET els == Stripped(baseTy).elements
        i == CHOOSE k \in 1..Len(els) :
               /\ els[k].name = name
               /\ \A j \in 1..(k - 1) : els[j].name # name
    IN Results = << [Kind |-> IF els[i].kind = "function" /\ els[i].isStatic
                                THEN "IgnoreBase" ELSE "PassBase",
                     D |-> els[i]] >>

\* C3 witness: two different protocol members of that name and an extension
\* member of that name too
C3_Witness ==
  /\ pc = "looked"
  /\ Stripped(baseTy).shape = "Protocol"
  /\ Len(Stripped(baseTy).elements) = 2
  /\ Stripped(baseTy).elements[1].name = name
  /\ Stripped(baseTy).elements[2].name = name
  /\ Stripped(baseTy).elements[1] # Stripped(baseTy).elements[2]
  /\ lookupGlobalExtensionMethods(module, Stripped(baseTy), name) # <<>>

\* the lookup reaches the extension registry with type T
ReachesExtensions(T) ==
  /\ LookedInto(T).shape \notin {"MetaType", "Module"}
  /\ ~ProtocolDeclares(LookedInto(T), name)

\* the declarations of the PassBase/IgnoreBase results, in order
DeclsOf(Res) ==
  LET ds == SelectSeq(Res, LAMBDA R : ~IsFieldKind(R))
  IN [i \in 1..Len(ds) |-> ds[i].D]

\* C4 as stated: a name that is a declared member of a protocol and an
\* extension member of the same type gives the protocol member followed by
\* the extension members.
C4_ProtocolAndExtension ==
  (pc # "new" /\ ProtocolDeclares(baseTy, name)) =>
    Len(Results) =
      1 + Len(lookupGlobalExtensionMethods(module, Stripped(baseTy), name))

\* C4 amended: when the lookup reaches the extensions, every extension
\* member of that name is added, in registry order, whether or not its
\* declaration is in the list already; when the name is a declared member
\* of the protocol looked into, the extensions are not looked at and the
\* result is that one member.
C4_NoDeduplication ==
  pc # "new" =>
    LET T == LookedInto(baseTy)
        ext == lookupGlobalExtensionMethods(module, T, name)
        tags == IF Stripped(baseTy).shape = "MetaType" /\ T.shape = "OneOf"
                  THEN SelectSeq(T.elements, LAMBDA e : e.name = name)
                  ELSE <<>>
    IN /\ ReachesExtensions(baseTy) =>
            DeclsOf(Results) = (IF tags = <<>> THEN <<>> ELSE <<tags[1]>>) \o ext
       /\ ProtocolDeclares(T, name) => Len(Results) = 1

\* C4 witness: the extensions declare, under that name, the oneof element
\* the metatype lookup listed already, and it is listed again
C4_Witness ==
  /\ pc = "looked"
  /\ ReachesExtensions(baseTy)
  /\ Stripped(baseTy).shape = "MetaType"
  /\ Len(Results) = 2
  /\ Results[1].D.kind = "tagConstructor"
  /\ Results[2] = Results[1]
  /\ Len(lookupGlobalExtensionMethods(module, LookedInto(baseTy), name)) = 1

\* the ten decimal digits as characters
DecimalChars == <<"0", "1", "2", "3", "4", "5", "6", "7", "8", "9">>

\* nm is "$" and a decimal numeral of v, leading zeros allowed (v < 10)
Spells(nm, v) ==
  /\ Len(nm) >= 2
  /\ nm[1] = "$"
  /\ nm[Len(nm)] = DecimalChars[v + 1]
  /\ \A i \in 2..(Len(nm) - 1) : nm[i] = "0"

\* the tuple type a field lookup on T looks into
FieldTuple(T) == IF T.shape = "OneOf" THEN T.args[1] ELSE T

FieldKindFor(T) == IF T.shape = "OneOf" THEN "StructElement" ELSE "TupleElement"

\* C5: the field lookup adds at most one result: the field of that name if
\* the tuple has one, whatever the form of the name; else field v if the
\* name is "$" and a decimal numeral of some v below the field count; else
\* nothing.  The result is a TupleElement for a tuple and a StructElement
\* for a tuple reached through a transparent oneof.
C5_FieldLookup ==
  pc = "fields" =>
    LET fields == FieldTuple(baseTy).fields
        n == Len(fields)
        named == {i \in 0..(n - 1) : fields[i + 1].name = name}
        spelt == {v \in 0..(n - 1) : Spells(name, v)}
    IN IF named # {}
         THEN /\ Len(Results) = 1
              /\ Results[1].Kind = FieldKindFor(baseTy)
              /\ Results[1].TupleFieldNo \in named
              /\ \A i \in named : Results[1].TupleFieldNo <= i
       ELSE IF spelt # {}
         THEN /\ Len(Results) = 1
              /\ Results[1].Kind = FieldKindFor(baseTy)
              /\ Results[1].TupleFieldNo \in spelt
       ELSE Results = <<>>

\* C5 witness: a name of the "$<digits>" form that is also a field's name
\* at another position, resolved to the named field through a oneof
C5_Witness ==
  /\ pc = "fields"
  /\ baseTy.shape = "OneOf"
  /\ name = NameDollar1
  /\ Len(FieldTuple(baseTy).fields) = 2
  /\ Results = <<[Kind |-> "StructElement", TupleFieldNo |-> 0]>>

(* ==================== properties of createResultAST ==================== *)
\* createResultAST returned no expression
Fatal(Ex) == Ex.node \in {"AssertionFailure", "Undefined"}

\* the base expression createResultAST is given
BaseExpr == [node |-> "Base", type |-> baseTy]

\* C6: createResultAST is fatal for an empty list and for a list of two or
\* more results holding a field result, and for no other list.
C6_FatalExactlyThen ==
  pc = "built" =>
    (Fatal(result) <=> (Results = <<>> \/ (Len(Results) >= 2 /\ HasField(Results))))

\* C7: for two or more results createResultAST builds one overload set
\* expression on the unchanged base, listing the results' declarations in
\* the order of the list, duplicates kept.
C7_OverloadSetInOrder ==
  (pc = "built" /\ Len(Results) >= 2) =>
    /\ result.node = "OverloadedMemberRefExpr"
    /\ result.base = BaseExpr
    /\ Len(result.decls) = Len(Results)
    /\ \A i \in 1..Len(Results) :
         ~IsFieldKind(Results[i]) /\ result.decls[i] = Results[i].D

\* C8: for a single field result the element expression's type is the field
\* type, wrapped as an l-value with the base's qualifiers plus Implicit
\* exactly if the base is an l-value; for a struct element the same holds of
\* the look-through expression and the payload tuple type, and the element
\* expression is built on the look-through expression, which is built on
\* the base.
C8_LValuePropagation ==
  (pc = "built" /\ Len(Results) = 1 /\ IsFieldKind(Results[1])) =>
    LET viaOneof == Results[1].Kind = "StructElement"
        obj == Stripped(baseTy)
        tuple == IF viaOneof THEN obj.args[1] ELSE obj
        Like(t) == IF baseTy.shape = "LValue"
                     THEN [shape |-> "LValue", object |-> t,
                           quals |-> baseTy.quals \cup {"Implicit"}]
                     ELSE t
    IN /\ result.node \in {"SyntacticTupleElementExpr",
                           "ImplicitThisTupleElementExpr"}
       /\ result.field = Results[1].TupleFieldNo
       /\ result.type = Like(tuple.fields[Results[1].TupleFieldNo + 1].type)
       /\ IF viaOneof
            THEN /\ result.base.node = "LookThroughOneofExpr"
                 /\ result.base.type = Like(tuple)
                 /\ result.base.sub = BaseExpr
            ELSE result.base = BaseExpr

\* C8 witness: a struct element of an l-value base that is not Implicit and
\* carries another qualifier
C8_Witness ==
  /\ pc = "built"
  /\ Results = <<[Kind |-> "StructElement", TupleFieldNo |-> 1]>>
  /\ baseTy.shape = "LValue"
  /\ baseTy.quals = {"NonHeap"}
  /\ result.type.quals = {"NonHeap", "Implicit"}

\* a declaration that is a non-static instance member
InstanceMember(D) ==
  \/ D.kind = "dataMember"
  \/ D.kind = "function" /\ ~D.isStatic

\* C9: a PassBase result is a non-static instance member found through a
\* value of the base type; an IgnoreBase result is a type declaration, a
\* static function, a declaration of a module, or found through a metatype.
C9_ReceiverClassification ==
  pc # "new" =>
    \A i \in 1..Len(Results) :
      /\ Results[i].Kind = "PassBase" =>
           /\ InstanceMember(Results[i].D)
           /\ Stripped(baseTy).shape \notin {"MetaType", "Module"}
      /\ Results[i].Kind = "IgnoreBase" =>
           \/ Results[i].D.kind = "typeDecl"
           \/ Results[i].D.kind = "function" /\ Results[i].D.isStatic
           \/ Stripped(baseTy).shape \in {"MetaType", "Module"}

\* C10: a single PassBase result is a function or a data member, so that
\* createResultAST builds a call or a member reference for it.
C10_SinglePassBaseIsFuncOrVar ==
  (pc # "new" /\ Len(Results) = 1 /\ Results[1].Kind = "PassBase") =>
    /\ Results[1].D.kind \in {"function", "dataMember"}
    /\ pc = "built" => result.node \in {"DotSyntaxCallExpr", "MemberRefExpr"}

====
